---- MODULE Spec2Model ----
(***************************************************************************)
(* Points ledger of the rewards economy: task verification (routes/tasks), *)
(* perk redemption (routes/perks) and quiz awards (routes/quiz), each      *)
(* request handler broken into its individual store accesses so that       *)
(* concurrent requests interleave between them.                            *)
(***************************************************************************)
EXTENDS Integers, Sequences, FiniteSets, TLC

\* ---------------------------------------------------------------- bounds
MaxRequests == 2
MaxTaskRequests == 4
MaxStock == 2
MaxPerkRequests == 3
MaxApproveCalls == 3
MaxClaimCalls == 2
MaxFrameRequests == 2

Procs == {"r1", "r2"}

\* ------------------------------------------------------- program constants
QUIZ_POINTS == 10
UNLIMITED == -1

\* ---------------------------------------------------------- input domains
Tenants == {"u1", "u2"}
Landlords == {"L1", "L2"}
Users == Tenants \cup Landlords
TaskIds == {"t1"}
PerkIds == {"p1"}
Rewards == {20}
Costs == {20}
Quantities == {-2, -1, 0, 1, 2}
Reasons == {<< >>, <<" ">>, <<" ", "x">>}

VARIABLES
    users,          \* db["users"]: user_id -> [role, landlord_id, points]
    tasks,          \* db["tasks"]: task_id -> task document
    perks,          \* db["perks"]: perk_id -> perk document
    perk_claims,    \* db["perk_claims"]: set of claim documents
    quiz_attempts,  \* db["quiz_attempts"]: user_id -> sum of points_earned
    notifications,  \* db["notifications"]: recipient_id -> number of documents
    pc,             \* position of each in-flight request handler
    loc,            \* local variables of each in-flight request handler
    nreq,           \* number of requests started so far (uuid / clock source)
    budget,         \* number of requests the run may start
    initial,        \* history: balances and claimed counts at the start
    awarded,        \* history: points credited on account of each task
    was_approved    \* history: the task has entered status approved

vars == <<users, tasks, perks, perk_claims, quiz_attempts, notifications,
          pc, loc, nreq, budget, initial, awarded, was_approved>>

\* ------------------------------------------------------------- documents
NoTask ==
    [exists |-> FALSE, tenant_id |-> "", landlord_id |-> "", points_reward |-> 0,
     status |-> "", rejection_reason |-> << >>,
     submitted_at |-> 0, verified_at |-> 0]

NoPerk ==
    [exists |-> FALSE, gone |-> FALSE, landlord_id |-> "", points_cost |-> 0,
     available_quantity |-> 0, claimed_count |-> 0]

NoLocal ==
    [kind |-> "none", id |-> 0, user |-> "", upoints |-> 0, target |-> "",
     approved |-> FALSE, reason |-> << >>, is_correct |-> FALSE, task |-> NoTask, perk |-> NoPerk,
     points_result |-> 0, result |-> "", remaining_points |-> 0,
     before |-> 0, net |-> 0, stock |-> 0,
     returned_status |-> "", debited |-> FALSE, reserved |-> FALSE, refunded |-> FALSE,
     recorded |-> FALSE, notified |-> FALSE, wrote |-> FALSE, credited |-> FALSE]

\* str.strip() on a sequence of characters
RECURSIVE LStrip(_)
LStrip(s) == IF s = << >> THEN << >>
             ELSE IF Head(s) = " " THEN LStrip(Tail(s)) ELSE s

RECURSIVE RStrip(_)
RStrip(s) == IF s = << >> THEN << >>
             ELSE IF s[Len(s)] = " " THEN RStrip(SubSeq(s, 1, Len(s) - 1)) ELSE s

Strip_Nothing(s) == s

Strip(s) == RStrip(LStrip(s))

\* utils/auth.require_role: a caller without one of the allowed roles is
\* answered 401 before the handler touches anything
require_role(u, allowed_roles) == users[u].role \in allowed_roles

RoleOf(u) == IF u \in Tenants THEN "tenant" ELSE "landlord"
LandlordOf(u) == IF u \in Tenants THEN "L1" ELSE ""

CanStart(p) == pc[p] = "idle" /\ nreq < budget

Begin(p, kind, u, target) ==
    [NoLocal EXCEPT !.kind = kind, !.id = nreq + 1, !.user = u,
                    !.upoints = users[u].points, !.target = target,
                    !.before = users[u].points]

Finish(p, l, res) ==
    /\ pc' = [pc EXCEPT ![p] = "done"]
    /\ loc' = [loc EXCEPT ![p] = [l EXCEPT !.result = res]]

Goto(p, l, label) ==
    /\ pc' = [pc EXCEPT ![p] = label]
    /\ loc' = [loc EXCEPT ![p] = l]

\* ------------------------------------------------------------------ Init
\* Accounts start at 0 and are credited by approvals: a task may not exist
\* yet, be pending, be submitted, or have been approved and paid; a perk may
\* already be on offer with nothing claimed yet.
Task(tenant, landlord, reward, st) ==
    [NoTask EXCEPT !.exists = TRUE, !.tenant_id = tenant, !.landlord_id = landlord,
                   !.points_reward = reward, !.status = st]

Perk(landlord, cost, quantity, claimed) ==
    [NoPerk EXCEPT !.exists = TRUE, !.landlord_id = landlord, !.points_cost = cost,
                   !.available_quantity = quantity, !.claimed_count = claimed]

User(u, balance) ==
    [role |-> RoleOf(u), landlord_id |-> LandlordOf(u), points |-> balance]

InitTasks ==
    {NoTask} \cup
    {Task("u1", "L1", r, st) : r \in Rewards, st \in {"pending", "submitted", "approved"}}

InitPerks ==
    {NoPerk} \cup {Perk("L1", c, q, 0) : c \in Costs, q \in {UNLIMITED, 1}}

\* the points already paid out for the approved tasks of a tenant
Paid(ts, u) ==
    LET RECURSIVE Sum(_)
        Sum(S) == IF S = {} THEN 0
                  ELSE LET t == CHOOSE x \in S : TRUE
                       IN  (IF ts[t].status = "approved" /\ ts[t].tenant_id = u
                            THEN ts[t].points_reward ELSE 0) + Sum(S \ {t})
    IN  Sum(DOMAIN ts)

InitCommon ==
    /\ perk_claims = {}
    /\ quiz_attempts = [u \in DOMAIN users |-> 0]
    /\ notifications = [u \in DOMAIN users |-> 0]
    /\ loc = [p \in DOMAIN pc |-> NoLocal]
    /\ nreq = 0
    /\ initial = [points |-> [u \in DOMAIN users |-> users[u].points],
                  claimed |-> [k \in DOMAIN perks |-> perks[k].claimed_count]]
    /\ awarded = [t \in DOMAIN tasks |->
                    IF tasks[t].status = "approved" THEN tasks[t].points_reward ELSE 0]
    /\ was_approved = [t \in DOMAIN tasks |-> tasks[t].status = "approved"]

Init ==
    /\ tasks \in [TaskIds -> InitTasks]
    /\ perks \in [PerkIds -> InitPerks]
    /\ users = [u \in Users |-> User(u, Paid(tasks, u))]
    /\ pc = [p \in Procs |-> "idle"]
    /\ budget = MaxRequests
    /\ InitCommon

\* ------------------------------------------------- routes/tasks.create_task
CreateTask(p, u, t, tenant, reward) ==
    /\ CanStart(p)
    /\ require_role(u, {"landlord"})
    /\ ~tasks[t].exists
    /\ nreq' = nreq + 1
    /\ LET l == Begin(p, "create_task", u, t) IN
       IF ~(users[tenant].role = "tenant" /\ users[tenant].landlord_id = u) THEN
            /\ Finish(p, l, "404")
            /\ UNCHANGED tasks
       ELSE
            /\ tasks' = [tasks EXCEPT ![t] =
                  [NoTask EXCEPT !.exists = TRUE, !.tenant_id = tenant,
                                 !.landlord_id = u, !.points_reward = reward,
                                 !.status = "pending"]]
            /\ Finish(p, l, "200")
    /\ UNCHANGED <<users, perks, perk_claims, quiz_attempts, notifications,
                   budget, initial, awarded, was_approved>>

\* ------------------------------------------- routes/tasks.submit_task_proof
\* find_one by task_id and tenant_id, the status check and the upload checks
SubmitStart(p, u, t, photo_ok) ==
    /\ CanStart(p)
    /\ require_role(u, {"tenant"})
    /\ nreq' = nreq + 1
    /\ LET l == [Begin(p, "submit", u, t) EXCEPT !.task = tasks[t]] IN
       IF ~(tasks[t].exists /\ tasks[t].tenant_id = u) THEN Finish(p, l, "404")
       ELSE IF tasks[t].status \notin {"pending", "rejected"} THEN Finish(p, l, "400")
       ELSE IF ~photo_ok THEN Finish(p, l, "400")
       ELSE Goto(p, l, "s_write")
    /\ UNCHANGED <<users, tasks, perks, perk_claims, quiz_attempts, notifications,
                   budget, initial, awarded, was_approved>>

\* update_one({"task_id": task_id}, {"$set": {...}}): no condition on status
SubmitUpdate(cur, l) ==
    [cur EXCEPT !.status = "submitted",
                !.submitted_at = l.id, !.rejection_reason = << >>]

SubmitWrite(p) ==
    /\ pc[p] = "s_write"
    /\ LET l == loc[p]
           t == l.target IN
       /\ tasks' = [tasks EXCEPT ![t] =
                       IF tasks[t].exists THEN SubmitUpdate(tasks[t], l) ELSE tasks[t]]
       /\ Finish(p, l, "200")
    /\ UNCHANGED <<users, perks, perk_claims, quiz_attempts, notifications,
                   nreq, budget, initial, awarded, was_approved>>

\* ------------------------------------------------- routes/tasks.verify_task
\* find_one by task_id and landlord_id, the status check, and (for a
\* rejection) the check of the reason, which the handler makes before writing
VerifyStart(p, u, t, approved, reason) ==
    /\ CanStart(p)
    /\ require_role(u, {"landlord"})
    /\ nreq' = nreq + 1
    /\ LET l == [Begin(p, "verify", u, t) EXCEPT
                    !.task = tasks[t], !.approved = approved, !.reason = reason] IN
       IF ~(tasks[t].exists /\ tasks[t].landlord_id = u) THEN Finish(p, l, "404")
       ELSE IF tasks[t].status # "submitted" THEN Finish(p, l, "400")
       ELSE IF approved THEN Goto(p, l, "v_approve")
       ELSE IF Strip(reason) = << >> THEN Finish(p, l, "400")
       ELSE Goto(p, l, "v_reject")
    /\ UNCHANGED <<users, tasks, perks, perk_claims, quiz_attempts, notifications,
                   budget, initial, awarded, was_approved>>

\* find_one_and_update({"task_id": ..., "status": "submitted"}, ...)
ApproveMatches_AnyStatus(cur) == cur.exists

ApproveMatches(cur) == cur.exists /\ cur.status = "submitted"

VerifyApprove(p) ==
    /\ pc[p] = "v_approve"
    /\ LET l == loc[p]
           t == l.target IN
       IF ApproveMatches(tasks[t]) THEN
            /\ tasks' = [tasks EXCEPT ![t].status = "approved", ![t].verified_at = l.id]
            /\ was_approved' = [was_approved EXCEPT ![t] = TRUE]
            /\ Goto(p, [l EXCEPT !.wrote = TRUE], "v_award")
       ELSE
            /\ Finish(p, l, "409")
            /\ UNCHANGED <<tasks, was_approved>>
    /\ UNCHANGED <<users, perks, perk_claims, quiz_attempts, notifications,
                   nreq, budget, initial, awarded>>

\* update_one({"user_id": tenant_id}, {"$inc": {"points": points_reward}})
AwardAmount(l) == l.task.points_reward

AwardedAccount_Caller(l) == l.user

\* the account credited: the tenant_id of the task document read at the start
AwardedAccount(l) == l.task.tenant_id

VerifyAward(p) ==
    /\ pc[p] = "v_award"
    /\ LET l == loc[p]
           t == l.target
           tenant == AwardedAccount(l) IN
       /\ users' = [users EXCEPT ![tenant].points = @ + AwardAmount(l)]
       /\ awarded' = [awarded EXCEPT ![t] = @ + AwardAmount(l)]
       /\ Goto(p, [l EXCEPT !.points_result = users[tenant].points + AwardAmount(l),
                            !.credited = TRUE],
               "v_notify")
    /\ UNCHANGED <<tasks, perks, perk_claims, quiz_attempts, notifications,
                   nreq, budget, initial, was_approved>>

\* the approve is cut short between its two writes: the worker is killed, or
\* users_col.update_one raises and the request ends in a server error
VerifyInterrupted(p) ==
    /\ pc[p] = "v_award"
    /\ Finish(p, loc[p], "500")
    /\ UNCHANGED <<users, tasks, perks, perk_claims, quiz_attempts, notifications,
                   nreq, budget, initial, awarded, was_approved>>

\* update_one({"task_id": task_id}, {"$set": {...}}): no condition on status
RejectMatches(cur) == cur.exists

VerifyReject(p) ==
    /\ pc[p] = "v_reject"
    /\ LET l == loc[p]
           t == l.target IN
       /\ tasks' = [tasks EXCEPT ![t] =
                       IF RejectMatches(tasks[t])
                       THEN [tasks[t] EXCEPT !.status = "rejected",
                                             !.rejection_reason = Strip(l.reason),
                                             !.verified_at = l.id]
                       ELSE tasks[t]]
       /\ Goto(p, [l EXCEPT !.wrote = RejectMatches(tasks[t])], "v_notify")
    /\ UNCHANGED <<users, perks, perk_claims, quiz_attempts, notifications,
                   nreq, budget, initial, awarded, was_approved>>

\* create_notification returns None whether or not the document was stored:
\* the handler goes on to its closing find_one either way
NotifyNext_Raises(delivered) == IF delivered THEN "v_fetch" ELSE "done"

NotifyNext(delivered) == "v_fetch"

\* routes/notifications.create_notification: best effort, the insert may fail
VerifyNotify(p, delivered) ==
    /\ pc[p] = "v_notify"
    /\ LET l == loc[p] IN
       /\ notifications' =
             IF delivered
             THEN [notifications EXCEPT ![l.task.tenant_id] = @ + 1]
             ELSE notifications
       /\ Goto(p, [l EXCEPT !.notified = delivered], NotifyNext(delivered))
    /\ UNCHANGED <<users, tasks, perks, perk_claims, quiz_attempts,
                   nreq, budget, initial, awarded, was_approved>>

\* the closing find_one: the response carries the task as it is now
VerifyFetch(p) ==
    /\ pc[p] = "v_fetch"
    /\ LET l == loc[p] IN
       Finish(p, [l EXCEPT !.returned_status = tasks[l.target].status], "200")
    /\ UNCHANGED <<users, tasks, perks, perk_claims, quiz_attempts, notifications,
                   nreq, budget, initial, awarded, was_approved>>

\* ------------------------------------------------- routes/perks.create_perk
CreatePerk(p, u, k, cost, quantity) ==
    /\ CanStart(p)
    /\ require_role(u, {"landlord"})
    /\ ~perks[k].exists /\ ~perks[k].gone
    /\ nreq' = nreq + 1
    /\ LET l == Begin(p, "create_perk", u, k) IN
       /\ perks' = [perks EXCEPT ![k] =
             [NoPerk EXCEPT !.exists = TRUE, !.landlord_id = u,
                            !.points_cost = cost,
                            !.available_quantity = quantity,
                            !.claimed_count = 0]]
       /\ Finish(p, l, "200")
    /\ UNCHANGED <<users, tasks, perk_claims, quiz_attempts, notifications,
                   budget, initial, awarded, was_approved>>

\* ------------------------------------------------- routes/perks.delete_perk
DeletePerk(p, u, k) ==
    /\ CanStart(p)
    /\ require_role(u, {"landlord"})
    /\ nreq' = nreq + 1
    /\ LET l == Begin(p, "delete_perk", u, k) IN
       IF ~(perks[k].exists /\ perks[k].landlord_id = u) THEN
            /\ Finish(p, l, "404")
            /\ UNCHANGED perks
       ELSE
            /\ perks' = [perks EXCEPT ![k] = [NoPerk EXCEPT !.gone = TRUE]]
            /\ Finish(p, l, "200")
    /\ UNCHANGED <<users, tasks, perk_claims, quiz_attempts, notifications,
                   budget, initial, awarded, was_approved>>

\* -------------------------------------------------- routes/perks.claim_perk
\* require_role: the caller's user document is read here (the snapshot
\* user["points"] used by the pre-checks and by the failure responses)
ClaimStart(p, u, k) ==
    /\ CanStart(p)
    /\ require_role(u, {"tenant"})
    /\ nreq' = nreq + 1
    /\ Goto(p, Begin(p, "claim", u, k), "c_find")
    /\ UNCHANGED <<users, tasks, perks, perk_claims, quiz_attempts, notifications,
                   budget, initial, awarded, was_approved>>

\* perk["landlord_id"] != user.get("landlord_id", "") answers 403
PerkIsForTenant_Anyone(perk, tenant) == TRUE

PerkIsForTenant(perk, tenant) == perk.landlord_id = tenant.landlord_id

\* find_one of the perk, then the eligibility, quantity and points pre-checks
ClaimFind(p) ==
    /\ pc[p] = "c_find"
    /\ LET l0 == loc[p]
           perk == perks[l0.target]
           l == [l0 EXCEPT !.perk = perk, !.remaining_points = l0.upoints] IN
       IF ~perk.exists THEN Finish(p, l0, "404")
       ELSE IF ~PerkIsForTenant(perk, users[l0.user]) THEN Finish(p, l, "403")
       ELSE IF perk.available_quantity # UNLIMITED
               /\ perk.claimed_count >= perk.available_quantity
            THEN Finish(p, l, "sold_out")
       ELSE IF l0.upoints < perk.points_cost THEN Finish(p, l, "insufficient")
       ELSE Goto(p, l, "c_debit")
    /\ UNCHANGED <<users, tasks, perks, perk_claims, quiz_attempts, notifications,
                   nreq, budget, initial, awarded, was_approved>>

\* find_one_and_update({"user_id": ..., "points": {"$gte": points_cost}},
\*                     {"$inc": {"points": -points_cost}})
DebitMatches_Unconditional(balance, points_cost) == TRUE

DebitMatches(balance, points_cost) == balance >= points_cost

\* the balance the conditional $inc leaves in the store
DebitedBalance_Always(balance, points_cost) == balance - points_cost

DebitedBalance_Never(balance, points_cost) == balance

DebitedBalance(balance, points_cost) ==
    IF DebitMatches(balance, points_cost) THEN balance - points_cost ELSE balance

\* remaining_points of the "Insufficient points" answer: user.get("points", 0),
\* the document read by require_role
InsufficientReport(l, balance) == l.upoints

ClaimDebit(p) ==
    /\ pc[p] = "c_debit"
    /\ LET l == loc[p]
           u == l.user
           points_cost == l.perk.points_cost
           after == DebitedBalance(users[u].points, points_cost)
           l1 == [l EXCEPT !.net = @ + (after - users[u].points)] IN
       /\ users' = [users EXCEPT ![u].points = after]
       /\ IF DebitMatches(users[u].points, points_cost) THEN
               Goto(p, [l1 EXCEPT !.points_result = after, !.debited = TRUE], "c_stock")
          ELSE
               Finish(p, [l1 EXCEPT !.remaining_points =
                                        InsufficientReport(l, users[u].points)],
                      "insufficient_atomic")
    /\ UNCHANGED <<tasks, perks, perk_claims, quiz_attempts, notifications,
                   nreq, budget, initial, awarded, was_approved>>

\* find_one_and_update({"perk_id": ...,
\*     "$expr": {"$lt": ["$claimed_count", "$available_quantity"]}}, ...)
StockMatches_NoCeiling(cur) == cur.exists

StockMatches(cur) == cur.exists /\ cur.claimed_count < cur.available_quantity

ClaimStock(p) ==
    /\ pc[p] = "c_stock"
    /\ LET l == loc[p]
           k == l.target IN
       IF l.perk.available_quantity # UNLIMITED THEN
            IF StockMatches(perks[k]) THEN
                 /\ perks' = [perks EXCEPT ![k].claimed_count = @ + 1]
                 /\ Goto(p, [l EXCEPT !.stock = @ + 1, !.reserved = TRUE], "c_insert")
            ELSE
                 /\ Goto(p, l, "c_refund")
                 /\ UNCHANGED perks
       ELSE
            \* unlimited quantity: update_one, its result is not inspected
            IF perks[k].exists THEN
                 /\ perks' = [perks EXCEPT ![k].claimed_count = @ + 1]
                 /\ Goto(p, [l EXCEPT !.stock = @ + 1, !.reserved = TRUE], "c_insert")
            ELSE
                 /\ Goto(p, l, "c_insert")
                 /\ UNCHANGED perks
    /\ UNCHANGED <<users, tasks, perk_claims, quiz_attempts, notifications,
                   nreq, budget, initial, awarded, was_approved>>

\* update_one({"user_id": ...}, {"$inc": {"points": points_cost}})
RefundAmount_Nothing(l) == 0

RefundAmount_Twice(l) == 2 * l.perk.points_cost

RefundAmount(l) == l.perk.points_cost

ClaimRefund(p) ==
    /\ pc[p] = "c_refund"
    /\ LET l == loc[p]
           u == l.user IN
       /\ users' = [users EXCEPT ![u].points = @ + RefundAmount(l)]
       /\ Finish(p, [l EXCEPT !.net = @ + RefundAmount(l),
                              !.refunded = TRUE,
                              !.remaining_points = l.points_result + l.perk.points_cost],
                 "sold_out_refunded")
    /\ UNCHANGED <<tasks, perks, perk_claims, quiz_attempts, notifications,
                   nreq, budget, initial, awarded, was_approved>>

ClaimRecord_PerTenantAndPerk(l) ==
    [claim_id |-> 0, perk_id |-> l.target, tenant_id |-> l.user,
     landlord_id |-> l.perk.landlord_id,
     points_spent |-> l.perk.points_cost, fulfilled |-> FALSE]

\* the document of the claim: claim_id is a fresh uuid4 on every call
ClaimRecord(l) ==
    [claim_id |-> l.id, perk_id |-> l.target, tenant_id |-> l.user,
     landlord_id |-> l.perk.landlord_id,
     points_spent |-> l.perk.points_cost, fulfilled |-> FALSE]

\* insert_one into perk_claims inside try/except: a failed insert is logged
\* and the handler still answers success
ClaimInsert(p, inserted) ==
    /\ pc[p] = "c_insert"
    /\ LET l == loc[p] IN
       /\ perk_claims' =
             IF inserted THEN perk_claims \cup {ClaimRecord(l)} ELSE perk_claims
       /\ Finish(p, [l EXCEPT !.recorded = inserted,
                              !.remaining_points = l.points_result], "success")
    /\ UNCHANGED <<users, tasks, perks, quiz_attempts, notifications,
                   nreq, budget, initial, awarded, was_approved>>

\* ------------------------------------------- routes/quiz.submit_quiz_answer
QuizPoints(is_correct) == IF is_correct THEN QUIZ_POINTS ELSE 0

QuizStart(p, u, found, is_correct) ==
    /\ CanStart(p)
    /\ require_role(u, {"tenant", "landlord"})
    /\ nreq' = nreq + 1
    /\ LET l == Begin(p, "quiz", u, "") IN
       IF ~found THEN
            /\ Finish(p, l, "404")
            /\ UNCHANGED quiz_attempts
       ELSE
            /\ quiz_attempts' = [quiz_attempts EXCEPT ![u] = @ + QuizPoints(is_correct)]
            /\ IF QuizPoints(is_correct) > 0
               THEN Goto(p, [l EXCEPT !.is_correct = is_correct], "q_award")
               ELSE Finish(p, l, "200")
    /\ UNCHANGED <<users, tasks, perks, perk_claims, notifications,
                   budget, initial, awarded, was_approved>>

QuizAward(p) ==
    /\ pc[p] = "q_award"
    /\ LET l == loc[p] IN
       /\ users' = [users EXCEPT ![l.user].points = @ + QuizPoints(l.is_correct)]
       /\ Finish(p, l, "200")
    /\ UNCHANGED <<tasks, perks, perk_claims, quiz_attempts, notifications,
                   nreq, budget, initial, awarded, was_approved>>

\* the response has been sent: the handler's frame is gone
Return(p) ==
    /\ pc[p] = "done"
    /\ pc' = [pc EXCEPT ![p] = "idle"]
    /\ loc' = [loc EXCEPT ![p] = NoLocal]
    /\ UNCHANGED <<users, tasks, perks, perk_claims, quiz_attempts, notifications,
                   nreq, budget, initial, awarded, was_approved>>

\* ------------------------------------------------------------------ Next
Next ==
    \/ \E p \in DOMAIN pc, u \in DOMAIN users, t \in DOMAIN tasks, tenant \in DOMAIN users, r \in Rewards :
          CreateTask(p, u, t, tenant, r)
    \/ \E p \in DOMAIN pc, u \in DOMAIN users, t \in DOMAIN tasks, ok \in BOOLEAN :
          SubmitStart(p, u, t, ok)
    \/ \E p \in DOMAIN pc : SubmitWrite(p)
    \/ \E p \in DOMAIN pc, u \in DOMAIN users, t \in DOMAIN tasks, a \in BOOLEAN, r \in Reasons :
          VerifyStart(p, u, t, a, r)
    \/ \E p \in DOMAIN pc : VerifyApprove(p)
    \/ \E p \in DOMAIN pc : VerifyAward(p)
    \/ \E p \in DOMAIN pc : VerifyReject(p)
    \/ \E p \in DOMAIN pc, d \in BOOLEAN : VerifyNotify(p, d)
    \/ \E p \in DOMAIN pc : VerifyFetch(p)
    \/ \E p \in DOMAIN pc, u \in DOMAIN users, k \in DOMAIN perks, c \in Costs, q \in Quantities :
          CreatePerk(p, u, k, c, q)
    \/ \E p \in DOMAIN pc, u \in DOMAIN users, k \in DOMAIN perks : DeletePerk(p, u, k)
    \/ \E p \in DOMAIN pc, u \in DOMAIN users, k \in DOMAIN perks : ClaimStart(p, u, k)
    \/ \E p \in DOMAIN pc : ClaimFind(p)
    \/ \E p \in DOMAIN pc : ClaimDebit(p)
    \/ \E p \in DOMAIN pc : ClaimStock(p)
    \/ \E p \in DOMAIN pc : ClaimRefund(p)
    \/ \E p \in DOMAIN pc, i \in BOOLEAN : ClaimInsert(p, i)
    \/ \E p \in DOMAIN pc, u \in DOMAIN users, f \in BOOLEAN, c \in BOOLEAN :
          QuizStart(p, u, f, c)
    \/ \E p \in DOMAIN pc : QuizAward(p)
    \/ \E p \in DOMAIN pc : Return(p)

Spec == Init /\ [][Next]_vars

\* ------------------------------------------------ the task engine alone
\* One task of tenant u1 and landlord L1, pending or submitted, and the
\* submit, approve and reject requests against it.
InitTaskEngine ==
    /\ tasks \in [TaskIds -> {Task("u1", "L1", r, st) :
                                r \in Rewards, st \in {"pending", "submitted"}}]
    /\ perks = [k \in PerkIds |-> NoPerk]
    /\ users = [u \in {"u1", "L1"} |-> User(u, 0)]
    /\ pc = [p \in Procs |-> "idle"]
    /\ budget = MaxTaskRequests
    /\ InitCommon

NextTaskEngine ==
    \/ \E p \in DOMAIN pc, u \in DOMAIN users, t \in DOMAIN tasks :
          SubmitStart(p, u, t, TRUE)
    \/ \E p \in DOMAIN pc : SubmitWrite(p)
    \/ \E p \in DOMAIN pc, u \in DOMAIN users, t \in DOMAIN tasks, a \in BOOLEAN :
          VerifyStart(p, u, t, a, <<"x">>)
    \/ \E p \in DOMAIN pc : VerifyApprove(p)
    \/ \E p \in DOMAIN pc : VerifyAward(p)
    \/ \E p \in DOMAIN pc : VerifyReject(p)
    \/ \E p \in DOMAIN pc : VerifyNotify(p, TRUE)
    \/ \E p \in DOMAIN pc : VerifyFetch(p)
    \/ \E p \in DOMAIN pc : Return(p)

SpecTaskEngine == InitTaskEngine /\ [][NextTaskEngine]_vars

\* ------------------------------------- two approve calls on one submitted task
\* The owning landlord approves the same submitted task twice; the two
\* handlers interleave freely, which includes running one after the other.
InitApprove ==
    /\ \E r \in {10, 20} : tasks = [t \in TaskIds |-> Task("u1", "L1", r, "submitted")]
    /\ perks = [k \in PerkIds |-> NoPerk]
    /\ \E b \in {0, 10, 30} : users = [u \in {"u1", "L1"} |-> User(u, IF u = "u1" THEN b ELSE 0)]
    /\ pc = [p \in Procs |-> "idle"]
    /\ budget = 2
    /\ InitCommon

NextApprove ==
    \/ \E p \in DOMAIN pc, t \in DOMAIN tasks : VerifyStart(p, "L1", t, TRUE, << >>)
    \/ \E p \in DOMAIN pc : VerifyApprove(p)
    \/ \E p \in DOMAIN pc : VerifyAward(p)
    \/ \E p \in DOMAIN pc, d \in BOOLEAN : VerifyNotify(p, d)
    \/ \E p \in DOMAIN pc : VerifyFetch(p)

SpecApprove == InitApprove /\ [][NextApprove]_vars

\* ------------------------------------------ approve calls that may be cut short
\* One submitted task; the owning landlord calls approve, again and again,
\* and a handler may die between the status write and the award.
InitInterrupted ==
    /\ tasks = [t \in TaskIds |-> Task("u1", "L1", 20, "submitted")]
    /\ perks = [k \in PerkIds |-> NoPerk]
    /\ \E b \in {0, 10} : users = [u \in {"u1", "L1"} |-> User(u, IF u = "u1" THEN b ELSE 0)]
    /\ pc = [p \in Procs |-> "idle"]
    /\ budget = MaxApproveCalls
    /\ InitCommon

NextInterrupted ==
    \/ \E p \in DOMAIN pc, u \in DOMAIN users, t \in DOMAIN tasks :
          VerifyStart(p, u, t, TRUE, << >>)
    \/ \E p \in DOMAIN pc : VerifyApprove(p)
    \/ \E p \in DOMAIN pc : VerifyAward(p)
    \/ \E p \in DOMAIN pc : VerifyInterrupted(p)
    \/ \E p \in DOMAIN pc, d \in BOOLEAN : VerifyNotify(p, d)
    \/ \E p \in DOMAIN pc : VerifyFetch(p)
    \/ \E p \in DOMAIN pc : Return(p)

SpecInterrupted == InitInterrupted /\ [][NextInterrupted]_vars

\* ----------------------------------------------- a claim storm on one perk
\* One finite-stock perk of landlord L1 with some units left, and up to three
\* claim calls, each by a different tenant of L1 who can pay for it.
StormTenants == {"u1", "u2", "u3"}
StormProcs == {"r1", "r2", "r3"}

InitStorm ==
    /\ tasks = [t \in TaskIds |-> NoTask]
    /\ \E q \in 0..MaxStock, c \in 0..1 :
          /\ c <= q
          /\ perks = [k \in PerkIds |-> Perk("L1", 20, q, c)]
    /\ \E b \in {20, 50} :
          users = [u \in StormTenants \cup {"L1"} |->
                     [role |-> IF u = "L1" THEN "landlord" ELSE "tenant",
                      landlord_id |-> IF u = "L1" THEN "" ELSE "L1",
                      points |-> IF u = "L1" THEN 0 ELSE b]]
    /\ pc = [p \in StormProcs |-> "idle"]
    /\ budget \in 1..3
    /\ InitCommon

\* a tenant that has no claim in flight or finished yet
Fresh(u) == \A p \in DOMAIN pc : loc[p].user # u

NextStorm ==
    \/ \E p \in DOMAIN pc, u \in DOMAIN users, k \in DOMAIN perks :
          Fresh(u) /\ ClaimStart(p, u, k)
    \/ \E p \in DOMAIN pc : ClaimFind(p)
    \/ \E p \in DOMAIN pc : ClaimDebit(p)
    \/ \E p \in DOMAIN pc : ClaimStock(p)
    \/ \E p \in DOMAIN pc : ClaimRefund(p)
    \/ \E p \in DOMAIN pc, i \in BOOLEAN : ClaimInsert(p, i)

SpecStorm == InitStorm /\ [][NextStorm]_vars

\* ------------------------------------------------ one tenant claiming again
\* One perk of landlord L1, unlimited or with one or two units, and one tenant
\* of L1 who can pay for it more than once and calls claim repeatedly.
InitRetry ==
    /\ tasks = [t \in TaskIds |-> NoTask]
    /\ \E q \in {UNLIMITED, 1, 2} : perks = [k \in PerkIds |-> Perk("L1", 20, q, 0)]
    /\ \E b \in {40, 50} : users = [u \in {"u1", "L1"} |-> User(u, IF u = "u1" THEN b ELSE 0)]
    /\ pc = [p \in Procs |-> "idle"]
    /\ budget = MaxClaimCalls
    /\ InitCommon

NextRetry ==
    \/ \E p \in DOMAIN pc, u \in DOMAIN users, k \in DOMAIN perks : ClaimStart(p, u, k)
    \/ \E p \in DOMAIN pc : ClaimFind(p)
    \/ \E p \in DOMAIN pc : ClaimDebit(p)
    \/ \E p \in DOMAIN pc : ClaimStock(p)
    \/ \E p \in DOMAIN pc : ClaimRefund(p)
    \/ \E p \in DOMAIN pc : ClaimInsert(p, TRUE)
    \/ \E p \in DOMAIN pc : Return(p)

SpecRetry == InitRetry /\ [][NextRetry]_vars

\* ------------------------------------------------ the perk engine alone
\* One perk of landlord L1 with a single unit, two tenants of L1 who can pay
\* for it, and claim, delete and quiz requests against them.
InitPerkEngine ==
    /\ tasks = [t \in TaskIds |-> NoTask]
    /\ perks = [k \in PerkIds |-> Perk("L1", 20, 1, 0)]
    /\ \E b \in {20, 40} :
          users = [u \in {"u1", "u2", "L1"} |-> User(u, IF u = "u1" THEN b
                                                      ELSE IF u = "u2" THEN 20 ELSE 0)]
    /\ pc = [p \in Procs |-> "idle"]
    /\ budget = MaxPerkRequests
    /\ InitCommon

NextPerkEngine ==
    \/ \E p \in DOMAIN pc, u \in DOMAIN users, k \in DOMAIN perks : ClaimStart(p, u, k)
    \/ \E p \in DOMAIN pc : ClaimFind(p)
    \/ \E p \in DOMAIN pc : ClaimDebit(p)
    \/ \E p \in DOMAIN pc : ClaimStock(p)
    \/ \E p \in DOMAIN pc : ClaimRefund(p)
    \/ \E p \in DOMAIN pc : ClaimInsert(p, TRUE)
    \/ \E p \in DOMAIN pc, u \in DOMAIN users, k \in DOMAIN perks : DeletePerk(p, u, k)
    \/ \E p \in DOMAIN pc, u \in DOMAIN users : QuizStart(p, u, TRUE, TRUE)
    \/ \E p \in DOMAIN pc : QuizAward(p)
    \/ \E p \in DOMAIN pc : Return(p)

SpecPerkEngine == InitPerkEngine /\ [][NextPerkEngine]_vars

\* ------------------------------------- claims of one account against each other
\* One perk of landlord L1 with a single unit, two tenants of L1 holding
\* exactly its cost, and three requests in flight at once: claims by either
\* tenant and the landlord's delete.
InitContention ==
    /\ tasks = [t \in TaskIds |-> NoTask]
    /\ perks = [k \in PerkIds |-> Perk("L1", 20, 1, 0)]
    /\ users = [u \in {"u1", "u2", "L1"} |-> User(u, IF u = "L1" THEN 0 ELSE 20)]
    /\ pc = [p \in StormProcs |-> "idle"]
    /\ budget = 3
    /\ InitCommon

NextContention ==
    \/ \E p \in DOMAIN pc, u \in DOMAIN users, k \in DOMAIN perks : ClaimStart(p, u, k)
    \/ \E p \in DOMAIN pc : ClaimFind(p)
    \/ \E p \in DOMAIN pc : ClaimDebit(p)
    \/ \E p \in DOMAIN pc : ClaimStock(p)
    \/ \E p \in DOMAIN pc : ClaimRefund(p)
    \/ \E p \in DOMAIN pc : ClaimInsert(p, TRUE)
    \/ \E p \in DOMAIN pc, u \in DOMAIN users, k \in DOMAIN perks : DeletePerk(p, u, k)

SpecContention == InitContention /\ [][NextContention]_vars

\* ---------------------------------------- two tenants, two tasks, two perks
\* Landlord L1 with tenants u1 and u2, a task of each awaiting the landlord or
\* the tenant, two perks on offer, and claims and approvals against them.
FrameTasks == {"t1", "t2"}
FramePerks == {"p1", "p2"}

InitFrame ==
    /\ \E st \in {"pending", "submitted"} :
          tasks = [t \in FrameTasks |->
                     IF t = "t1" THEN Task("u1", "L1", 20, "submitted")
                     ELSE Task("u2", "L1", 20, st)]
    /\ \E q \in {UNLIMITED, 1} :
          perks = [k \in FramePerks |->
                     IF k = "p1" THEN Perk("L1", 20, 1, 0) ELSE Perk("L1", 20, q, 0)]
    /\ users = [u \in {"u1", "u2", "L1"} |-> User(u, IF u = "L1" THEN 0 ELSE 20)]
    /\ pc = [p \in Procs |-> "idle"]
    /\ budget = MaxFrameRequests
    /\ InitCommon

NextFrame ==
    \/ \E p \in DOMAIN pc, u \in DOMAIN users, k \in DOMAIN perks : ClaimStart(p, u, k)
    \/ \E p \in DOMAIN pc : ClaimFind(p)
    \/ \E p \in DOMAIN pc : ClaimDebit(p)
    \/ \E p \in DOMAIN pc : ClaimStock(p)
    \/ \E p \in DOMAIN pc : ClaimRefund(p)
    \/ \E p \in DOMAIN pc : ClaimInsert(p, TRUE)
    \/ \E p \in DOMAIN pc, u \in DOMAIN users, t \in DOMAIN tasks :
          VerifyStart(p, u, t, TRUE, << >>)
    \/ \E p \in DOMAIN pc : VerifyApprove(p)
    \/ \E p \in DOMAIN pc : VerifyAward(p)
    \/ \E p \in DOMAIN pc : VerifyNotify(p, TRUE)
    \/ \E p \in DOMAIN pc : VerifyFetch(p)
    \/ \E p \in DOMAIN pc : Return(p)

SpecFrame == InitFrame /\ [][NextFrame]_vars

\* =================================================================== claims
Min(a, b) == IF a <= b THEN a ELSE b

Done(p) == pc[p] = "done"

Quiescent == \A p \in DOMAIN pc : pc[p] \in {"idle", "done"}

ClaimCalls == {p \in DOMAIN pc : loc[p].kind = "claim"}

RECURSIVE SumBalances(_)
SumBalances(S) ==
    IF S = {} THEN 0
    ELSE LET u == CHOOSE x \in S : TRUE IN users[u].points + SumBalances(S \ {u})

RECURSIVE SumApproved(_)
SumApproved(S) ==
    IF S = {} THEN 0
    ELSE LET t == CHOOSE x \in S : TRUE
         IN  (IF tasks[t].exists /\ tasks[t].status = "approved"
              THEN tasks[t].points_reward ELSE 0) + SumApproved(S \ {t})

RECURSIVE SumSpent(_)
SumSpent(S) ==
    IF S = {} THEN 0
    ELSE LET c == CHOOSE x \in S : TRUE IN c.points_spent + SumSpent(S \ {c})

\* C1: in every reachable state, whatever claim, approve, reject, submit and
\* quiz requests interleave, every account's points balance is >= 0.
C1_BalanceNeverNegative == \A u \in DOMAIN users : users[u].points >= 0

\* C1 witness: two claims of one account raced; one was debited down to the
\* last point and the other was refused by the atomic debit.
C1_Witness ==
    \E p, q \in DOMAIN pc :
        /\ p # q
        /\ loc[p].kind = "claim" /\ loc[p].debited
        /\ loc[q].kind = "claim" /\ loc[q].result = "insufficient_atomic"
        /\ loc[p].user = loc[q].user
        /\ users[loc[p].user].points = 0

\* C2: every perk whose available_quantity is not the unlimited sentinel has
\* claimed_count <= available_quantity in every reachable state.
C2_NoOverselling ==
    \A k \in DOMAIN perks :
        (perks[k].exists /\ perks[k].available_quantity # UNLIMITED)
            => perks[k].claimed_count <= perks[k].available_quantity

C4_Conservation ==
    Quiescent =>
        SumApproved(DOMAIN tasks) - SumSpent(perk_claims) = SumBalances(DOMAIN users)

\* C5: a PerkClaim record exists for a finished claim attempt if and only if
\* its points debit and its stock increment both succeeded.
C5_RecordIffBothSucceeded ==
    \A p \in ClaimCalls :
        Done(p) =>
            ((\E c \in perk_claims : c.claim_id = loc[p].id)
                <=> (loc[p].debited /\ loc[p].reserved))

\* C6: a claim whose debit succeeded and whose conditional stock increment
\* failed has, once it returns, changed the account's balance by a net zero,
\* left claimed_count as it was, and written no PerkClaim record.
C6_FailedReservationIsNetZero ==
    \A p \in ClaimCalls :
        (/\ Done(p)
         /\ loc[p].debited
         /\ loc[p].perk.available_quantity # UNLIMITED
         /\ ~loc[p].reserved)
        => /\ loc[p].net = 0
           /\ loc[p].stock = 0
           /\ ~\E c \in perk_claims : c.claim_id = loc[p].id

\* C6 witness: a claim was debited, lost the stock step, refunded and returned.
C6_Witness ==
    \E p \in ClaimCalls :
        /\ Done(p)
        /\ loc[p].debited /\ ~loc[p].reserved /\ loc[p].refunded
        /\ loc[p].perk.available_quantity # UNLIMITED
        /\ loc[p].result = "sold_out_refunded"

\* C7: with r units left on a finite-stock perk and k claim calls by k distinct
\* eligible accounts that can each pay, once all calls have returned exactly
\* min(k, r) of them succeeded and were debited, claimed_count rose by
\* min(k, r), and every other call ended sold-out with its balance as before.
StormFinal == nreq = budget /\ Quiescent

StormRemaining(k) == perks[k].available_quantity - initial.claimed[k]

Succeeded == {p \in ClaimCalls : loc[p].result = "success"}

C7_ExactlyMinSucceed ==
    StormFinal =>
        LET m == Min(budget, StormRemaining("p1")) IN
        /\ Cardinality(ClaimCalls) = budget
        /\ Cardinality(Succeeded) = m
        /\ perks["p1"].claimed_count = initial.claimed["p1"] + m
        /\ \A p \in Succeeded :
              /\ loc[p].debited
              /\ users[loc[p].user].points =
                    initial.points[loc[p].user] - perks["p1"].points_cost
        /\ \A p \in ClaimCalls \ Succeeded :
              /\ loc[p].result \in {"sold_out", "sold_out_refunded"}
              /\ users[loc[p].user].points = initial.points[loc[p].user]

\* C7 witness: three calls raced for two units; two succeeded and the third
\* was debited, lost the stock step and was refunded.
C7_Witness ==
    /\ StormFinal
    /\ budget = 3
    /\ Cardinality(Succeeded) = 2
    /\ \E p \in ClaimCalls : loc[p].result = "sold_out_refunded"

\* C8: once a task's status is approved, no step changes it.
C8_ApprovedIsTerminal ==
    [][\A t \in DOMAIN tasks :
          tasks[t].status = "approved" => tasks'[t].status = "approved"]_vars

\* C9: the points awarded on account of a task total either 0 or its
\* points_reward, and points_reward only after the task entered approved.
C9_AwardAtMostOnce ==
    \A t \in DOMAIN tasks :
        /\ awarded[t] \in {0, tasks[t].points_reward}
        /\ awarded[t] # 0 => was_approved[t]

\* C10: the write of a reject changes the task only if its status is still
\* submitted at that moment, never overwrites approved, and changes no balance.
C10_RejectIsConditional ==
    [][\A p \in DOMAIN pc :
          (pc[p] = "v_reject" /\ pc'[p] # "v_reject") =>
              LET t == loc[p].target IN
              /\ tasks'[t] # tasks[t] => tasks[t].status = "submitted"
              /\ tasks[t].status = "approved" => tasks'[t].status = "approved"
              /\ \A u \in DOMAIN users : users'[u].points = users[u].points]_vars

\* C11: a claim that ends with an insufficient-points outcome, from the
\* snapshot pre-check or from the failed atomic debit, has changed nothing:
\* its last step leaves balances, perks and PerkClaim records as they were,
\* and none of its earlier steps debited, reserved stock or wrote a record.
InsufficientOutcomes == {"insufficient", "insufficient_atomic"}

C11_InsufficientChangesNothing ==
    [][\A p \in DOMAIN pc :
          (/\ pc[p] # "done" /\ pc'[p] = "done"
           /\ loc'[p].kind = "claim"
           /\ loc'[p].result \in InsufficientOutcomes)
          => /\ users' = users
             /\ perks' = perks
             /\ perk_claims' = perk_claims
             /\ loc'[p].net = 0 /\ loc'[p].stock = 0
             /\ ~loc'[p].debited /\ ~loc'[p].reserved /\ ~loc'[p].recorded]_vars

\* C11 witness: a claim passed the snapshot pre-check, was refused by the
\* atomic debit because the account no longer holds the cost, and returned.
C11_Witness ==
    \E p \in ClaimCalls :
        /\ Done(p)
        /\ loc[p].result = "insufficient_atomic"
        /\ loc[p].upoints >= loc[p].perk.points_cost
        /\ users[loc[p].user].points < loc[p].perk.points_cost

\* C12: a reject whose reason is empty or only whitespace, sent by the owning
\* landlord for a submitted task, is answered with the validation error (400)
\* and leaves the task's status, rejection_reason and verified_at as they were.
Blank(reason) == \A i \in 1..Len(reason) : reason[i] = " "

C12_EmptyReasonRejected ==
    [][\A p \in DOMAIN pc :
          (/\ pc[p] = "idle" /\ pc'[p] # "idle"
           /\ loc'[p].kind = "verify"
           /\ ~loc'[p].approved
           /\ Blank(loc'[p].reason)
           /\ tasks[loc'[p].target].exists
           /\ tasks[loc'[p].target].landlord_id = loc'[p].user
           /\ tasks[loc'[p].target].status = "submitted")
          => /\ pc'[p] = "done"
             /\ loc'[p].result = "400"
             /\ ~loc'[p].wrote
             /\ tasks' = tasks]_vars

\* C12 witness: a reject with a whitespace-only reason on a submitted task has
\* returned 400 and the task is still submitted with no reason recorded.
C12_Witness ==
    \E p \in DOMAIN pc :
        /\ Done(p)
        /\ loc[p].kind = "verify" /\ ~loc[p].approved
        /\ loc[p].reason = <<" ">>
        /\ loc[p].task.status = "submitted"
        /\ loc[p].result = "400"
        /\ tasks[loc[p].target].status = "submitted"
        /\ tasks[loc[p].target].rejection_reason = << >>
        /\ tasks[loc[p].target].verified_at = 0

\* C13: a claim on a perk id that does not exist, or by a tenant whose
\* landlord_id differs from the perk's landlord_id, is refused (404, 403) and
\* changes no balance, no claimed_count and no PerkClaim record.
C13_IneligibleClaimChangesNothing ==
    [][\A p \in DOMAIN pc :
          (/\ pc[p] = "c_find" /\ pc'[p] # "c_find"
           /\ \/ ~perks[loc[p].target].exists
              \/ perks[loc[p].target].landlord_id # users[loc[p].user].landlord_id)
          => /\ pc'[p] = "done"
             /\ loc'[p].result =
                   IF ~perks[loc[p].target].exists THEN "404" ELSE "403"
             /\ users' = users
             /\ perks' = perks
             /\ perk_claims' = perk_claims
             /\ loc'[p].net = 0 /\ loc'[p].stock = 0
             /\ ~loc'[p].debited /\ ~loc'[p].reserved /\ ~loc'[p].recorded]_vars

\* C13 witness: a tenant of L1 claimed a perk of another landlord and got 403.
C13_Witness ==
    \E p \in ClaimCalls :
        /\ Done(p)
        /\ loc[p].result = "403"
        /\ perks[loc[p].target].exists
        /\ perks[loc[p].target].landlord_id # users[loc[p].user].landlord_id
        /\ perks[loc[p].target].claimed_count = 0
        /\ perk_claims = {}

\* C14: every step that changes an account's balance is the award of a task
\* approval, the debit of a claim or the refund of a claim.
C14_OnlyLedgerWritesBalance ==
    [][\A u \in DOMAIN users :
          users'[u].points # users[u].points
          => \E p \in DOMAIN pc :
                /\ pc[p] \in {"v_award", "c_debit", "c_refund"}
                /\ pc'[p] # pc[p]]_vars

\* C15: within one claim the stock increment comes after the debit and the
\* refund after a failed stock increment: every step that raises a perk's
\* claimed_count is taken by a claim that holds an applied, unrefunded debit
\* of points_cost, and every refund step by a claim that was debited and whose
\* stock increment did not go through.
C15_DebitThenStockThenRefund ==
    [][/\ \A k \in DOMAIN perks :
            perks'[k].claimed_count > perks[k].claimed_count
            => /\ perks'[k].claimed_count = perks[k].claimed_count + 1
               /\ \E p \in DOMAIN pc :
                     /\ pc[p] = "c_stock" /\ pc'[p] = "c_insert"
                     /\ loc[p].target = k
                     /\ loc[p].debited /\ ~loc[p].refunded
                     /\ loc[p].net = 0 - loc[p].perk.points_cost
       /\ \A p \in DOMAIN pc :
            (pc[p] = "c_refund" /\ pc'[p] # "c_refund")
            => /\ loc[p].debited /\ ~loc[p].reserved /\ ~loc[p].refunded
               /\ loc[p].stock = 0
               /\ loc[p].net = 0 - loc[p].perk.points_cost
               /\ perks' = perks]_vars

\* C15 witness: a claim has been debited and has then taken a unit of stock.
C15_Witness ==
    \E p \in ClaimCalls :
        /\ pc[p] = "c_insert"
        /\ loc[p].debited /\ loc[p].reserved /\ ~loc[p].refunded
        /\ perks[loc[p].target].claimed_count = 1
        /\ users[loc[p].user].points = loc[p].upoints - loc[p].perk.points_cost

\* C16: every claim that has returned success has left a notification for the
\* perk's owning landlord in the store.
C16_SuccessNotifiesLandlord ==
    \A p \in ClaimCalls :
        (Done(p) /\ loc[p].result = "success")
            => notifications[loc[p].perk.landlord_id] > 0

\* C17: the notification step of approve and reject never touches the ledger
\* and never stops the handler: whether or not the notification was stored,
\* the task keeps its new status, the award of an approve stays applied, and
\* the handler goes on to answer.
C17_NotificationNeverBlocks ==
    [][\A p \in DOMAIN pc :
          (pc[p] = "v_notify" /\ pc'[p] # "v_notify")
          => /\ tasks' = tasks
             /\ users' = users
             /\ awarded' = awarded
             /\ pc'[p] = "v_fetch"
             /\ loc[p].approved => (loc'[p].wrote /\ loc'[p].credited)]_vars

\* C17 witness: an approve whose notification was not stored has returned 200
\* with the award applied.
C17_Witness ==
    \E p \in DOMAIN pc :
        /\ Done(p)
        /\ loc[p].kind = "verify" /\ loc[p].approved
        /\ ~loc[p].notified
        /\ loc[p].wrote /\ loc[p].credited
        /\ loc[p].result = "200"
        /\ awarded[loc[p].target] = loc[p].task.points_reward

\* C18: the balance a claim reports when it ends sold-out after a refund is
\* the account's balance right after the refund write.
C18_ReportsRefundedBalance ==
    [][\A p \in DOMAIN pc :
          (pc[p] = "c_refund" /\ pc'[p] = "done")
          => loc'[p].remaining_points = users'[loc[p].user].points]_vars

\* C19: when the atomic conditional debit matches no account, the balance the
\* claim reports is the account's balance at that moment, which is below
\* points_cost, and not the snapshot read before the debit.
C19_ReportsCurrentBalance ==
    [][\A p \in DOMAIN pc :
          (/\ pc[p] = "c_debit" /\ pc'[p] = "done"
           /\ loc'[p].result = "insufficient_atomic")
          => /\ loc'[p].remaining_points = users[loc[p].user].points
             /\ loc'[p].remaining_points < loc[p].perk.points_cost]_vars

\* C20: no claim stays debited but unresolved: a claim whose debit was applied
\* has, by the time its handler has run to its end, either incremented the
\* perk's claimed_count or refunded the debit.
C20_DebitIsResolved ==
    \A p \in ClaimCalls :
        (Done(p) /\ loc[p].debited) => (loc[p].reserved \/ loc[p].refunded)

\* C21: every perk in the store has an available_quantity that is a
\* non-negative integer or the unlimited sentinel, so a newly created
\* finite-stock perk (claimed_count 0) is within its quantity.
C21_QuantityInDomain ==
    \A k \in DOMAIN perks :
        perks[k].exists =>
            \/ perks[k].available_quantity = UNLIMITED
            \/ perks[k].available_quantity >= 0

\* C22: a finished claim on an unlimited perk whose atomic debit succeeded
\* ended in success, raised claimed_count by exactly 1 and was not refunded.
C22_UnlimitedStockStepNeverFails ==
    \A p \in ClaimCalls :
        (/\ Done(p)
         /\ loc[p].debited
         /\ loc[p].perk.available_quantity = UNLIMITED)
        => /\ loc[p].result = "success"
           /\ loc[p].stock = 1
           /\ loc[p].reserved
           /\ ~loc[p].refunded

\* C23: the write of a submit changes the task only if its status at that
\* moment is pending or rejected; on a task that is by then submitted or
\* approved the submit fails and leaves the task as it is.
C23_SubmitIsConditional ==
    [][\A p \in DOMAIN pc :
          (pc[p] = "s_write" /\ pc'[p] # "s_write") =>
              LET t == loc[p].target IN
              IF tasks[t].status \in {"pending", "rejected"}
              THEN tasks'[t].status = "submitted"
              ELSE tasks'[t] = tasks[t] /\ loc'[p].result # "200"]_vars

\* C24: once an approve has been cut short after setting the status and
\* before the award (the task is approved, nothing was awarded on its account
\* and no handler is about to award), the task stays so: it remains approved,
\* no balance changes, and every approve call that finishes fails (400 or
\* 409) without awarding.
Stranded(t) ==
    /\ tasks[t].status = "approved"
    /\ awarded[t] = 0
    /\ \A p \in DOMAIN pc : ~(pc[p] = "v_award" /\ loc[p].target = t)

C25_RefundsOwnDebitOnce ==
    [][/\ \A p \in DOMAIN pc :
            (pc[p] = "c_refund" /\ pc'[p] # "c_refund")
            => /\ loc[p].debited /\ ~loc[p].refunded
               /\ loc[p].net < 0
               /\ users'[loc[p].user].points - users[loc[p].user].points
                     = 0 - loc[p].net
               /\ loc'[p].net = 0
               /\ pc'[p] = "done"
       /\ \A u \in DOMAIN users :
            users'[u].points > users[u].points
            => \E p \in DOMAIN pc :
                  /\ pc'[p] # pc[p]
                  /\ \/ pc[p] \in {"v_award", "q_award"}
                     \/ /\ pc[p] = "c_refund"
                        /\ loc[p].user = u
                        /\ loc[p].debited /\ ~loc[p].refunded]_vars

\* C25 witness: a claim was debited, lost the stock step to a deletion of the
\* perk, refunded once and returned; the account is back at its initial
\* balance.
C25_Witness ==
    \E p \in ClaimCalls :
        /\ Done(p) /\ loc[p].result = "sold_out_refunded"
        /\ loc[p].debited /\ loc[p].refunded /\ loc[p].net = 0
        /\ perks[loc[p].target].gone
        /\ users[loc[p].user].points = initial.points[loc[p].user]

\* C26: a reject whose reason is empty is answered with the validation error
\* whatever the task is (missing, of another landlord, in any status), and
\* the handler has read nothing from the store and written nothing to it.
C26_EmptyReasonBeforeStore ==
    [][\A p \in DOMAIN pc :
          (/\ pc[p] = "idle" /\ pc'[p] # "idle"
           /\ loc'[p].kind = "verify"
           /\ ~loc'[p].approved
           /\ Blank(loc'[p].reason))
          => /\ pc'[p] = "done"
             /\ loc'[p].result = "400"
             /\ loc'[p].task = NoTask
             /\ tasks' = tasks]_vars

\* C27: claim is not idempotent. Once a tenant's claim of a perk has succeeded
\* (its PerkClaim record is in the store), a further claim call by the same
\* tenant for the same perk is treated as a new purchase: it passes the
\* pre-checks while stock and snapshot suffice, its debit takes points_cost
\* again while the balance suffices, its stock step raises claimed_count again
\* while stock is left, and its insert adds one more PerkClaim record.
HasClaimed(u, k) == \E c \in perk_claims : c.tenant_id = u /\ c.perk_id = k

InStock(perk) ==
    perk.exists /\ (perk.available_quantity = UNLIMITED
                    \/ perk.claimed_count < perk.available_quantity)

C28_DeletedPerkIsNotCharged ==
    \A p \in ClaimCalls :
        (/\ Done(p)
         /\ loc[p].perk.exists
         /\ perks[loc[p].target].gone
         /\ ~loc[p].reserved)
        => /\ loc[p].result # "success"
           /\ loc[p].net = 0

\* C29: a claim is refused by the atomic debit only if the account really
\* lacks the points: once every request has returned (each transient debit is
\* refunded by then and nothing else credits an account here), the account of
\* a claim that was refused by the atomic debit holds less than points_cost.
C29_TransientDebitFailsNoOne ==
    Quiescent =>
        \A q \in ClaimCalls :
            loc[q].result = "insufficient_atomic"
                => users[loc[q].user].points < loc[q].perk.points_cost

\* C30: every step of a claim by tenant U on perk P leaves the balance of
\* every account other than U and the claimed_count of every perk other than
\* P as they were; every step of an approve of task T leaves the balance of
\* every account other than T's tenant and the status of every task other
\* than T as they were.
C30_FrameOfClaimAndApprove ==
    [][\A p \in DOMAIN pc :
          pc'[p] # pc[p] =>
              LET l == IF pc[p] = "idle" THEN loc'[p] ELSE loc[p] IN
              /\ l.kind = "claim" =>
                    /\ \A u \in DOMAIN users \ {l.user} :
                          users'[u].points = users[u].points
                    /\ \A k \in DOMAIN perks \ {l.target} :
                          perks'[k].claimed_count = perks[k].claimed_count
              /\ (l.kind = "verify" /\ l.approved) =>
                    /\ \A u \in DOMAIN users \ {tasks[l.target].tenant_id} :
                          users'[u].points = users[u].points
                    /\ \A t \in DOMAIN tasks \ {l.target} :
                          tasks'[t].status = tasks[t].status]_vars

\* C30 witness: u2 has claimed p2 and t1 (of u1) has been approved: u1 holds
\* the award and nothing else, u2 paid the cost and nothing else, p1 is
\* untouched and t2 is not approved.
C30_Witness ==
    /\ \E p, q \in DOMAIN pc :
          /\ Done(p) /\ loc[p].kind = "claim" /\ loc[p].result = "success"
          /\ loc[p].user = "u2" /\ loc[p].target = "p2"
          /\ Done(q) /\ loc[q].kind = "verify" /\ loc[q].result = "200"
          /\ loc[q].target = "t1" /\ loc[q].credited
    /\ users["u1"].points = initial.points["u1"] + tasks["t1"].points_reward
    /\ users["u2"].points = initial.points["u2"] - perks["p2"].points_cost
    /\ users["L1"].points = initial.points["L1"]
    /\ perks["p1"].claimed_count = 0 /\ perks["p2"].claimed_count = 1
    /\ tasks["t2"].status # "approved"

====
